---- MODULE Spec2Model ----
(***************************************************************************)
(* SubWave (src/main.rs): the UI thread's update() handler, the capture    *)
(* threads (capture_audio), the transcription threads (transcribe_audio),  *)
(* the mutex-guarded sample buffer they share and the one-shot receive of  *)
(* each session's update channel.                                          *)
(*                                                                         *)
(* Amplitudes are integers in units of 0.001, so noise_threshold is 1.     *)
(* One element of a modelled sample sequence stands for a run of BlockSize *)
(* equal consecutive samples: buffer.len() is Len(buffer) * BlockSize.     *)
(* A critical section of the buffer's Mutex (lock, body, drop of the       *)
(* guard) is one step: it is enabled when the lock is free and leaves the  *)
(* lock as the drop of its guard leaves it.                                *)
(* A transcript text is <<>> (the empty string) or <<p, k>>, the k-th      *)
(* non-empty transcription sent by the consumer of pair p.                 *)
(***************************************************************************)
EXTENDS Integers, Sequences, FiniteSets, TLC

\* Bounds of the model.
MaxPairs == 2        \* pairs of threads spawned in one run
MaxFrames == 2       \* frames the audio driver delivers in one run
BlockSize == 4000    \* real samples one modelled sample stands for

\* Program constants.
noise_threshold == 1 \* 0.001, in units of 0.001
MinSamples == 8000   \* buffer.len() < 8000

\* Frames the driver may hand to the input callback.
FrameSet == { <<0, 1, -1>>, <<2>>, <<-2, 0, 2>> }

VARIABLES
    is_capturing,         \* SubWave.is_capturing
    latest_transcription, \* SubWave.latest_transcription
    audio_buffer,         \* contents of SubWave.audio_buffer (one Vec for the process)
    lock,                 \* holder of the buffer's Mutex, or Free
    prod,                 \* prod[p]: capture thread of pair p: [pc]
    cons,                 \* cons[p]: transcription thread of pair p: [pc, audio_data, sent]
    chan,                 \* chan[p]: update channel of pair p: [q, rx]
    buffer_since,         \* history: the pairs spawned when the oldest buffered sample was appended
    appended,             \* history: every gated sample appended, in lock order
    drained,              \* history: every sample taken by a consumer, in lock order
    delivered,            \* history: TranscriptionUpdates received from channels
    nframes,              \* history: frames delivered so far
    silent_input,         \* history: no frame delivered so far had a sample above the threshold
    quiet                 \* history: while Idle, a session was stopped and no sample was
                          \* appended since; while Capturing, the session was started
                          \* from such an Idle

ctlvars == <<is_capturing, latest_transcription, prod, cons, chan>>
vars == <<is_capturing, latest_transcription, audio_buffer, lock, prod, cons, chan,
          buffer_since, appended, drained, delivered, nframes, silent_input, quiet>>

Free == <<"free", 0>>
EmptyText == <<>>

Abs(x) == IF x < 0 THEN -x ELSE x

\* every sample of the frame has an amplitude at or below the threshold
Silent(data) == \A i \in DOMAIN data : Abs(data[i]) <= noise_threshold

\* NoiseGate with the filter left out
NoiseGateOff(data) == data

\* NoiseGate with the comparison written >= instead of >
NoiseGateAtOrAbove(data) == SelectSeq(data, LAMBDA sample : Abs(sample) >= noise_threshold)

\* data.iter().filter(|&&sample| sample.abs() > noise_threshold)
NoiseGate(data) == SelectSeq(data, LAMBDA sample : Abs(sample) > noise_threshold)

\* buffer.len()
BufLen(buffer) == Len(buffer) * BlockSize

\* TooShort with only the empty buffer skipped
TooShortOnlyWhenEmpty(buffer) == BufLen(buffer) = 0

\* if buffer.len() < 8000 { continue; }
TooShort(buffer) == BufLen(buffer) < MinSamples

\* AfterTake with the buffer cloned instead of taken
AfterClone(buffer) == buffer

\* AfterTake with the newest sample left behind
AfterTakeButLast(buffer) == IF buffer = <<>> THEN <<>> ELSE <<buffer[Len(buffer)]>>

\* what std::mem::take(&mut *buffer) leaves in the buffer
AfterTake(buffer) == << >>

\* GuardDropped with the guard kept alive past the end of its block
GuardKept(holder) == holder

\* the Mutex after a MutexGuard taken by thread `holder` has gone out of scope
GuardDropped(holder) == Free

\* The part of the application state update() reads and writes.
Ctl == [ is_capturing |-> is_capturing,
         latest_transcription |-> latest_transcription,
         prod |-> prod, cons |-> cons, chan |-> chan ]

CtlNext == [ is_capturing |-> is_capturing',
             latest_transcription |-> latest_transcription',
             prod |-> prod', cons |-> cons', chan |-> chan' ]

SetCtl(t) ==
    /\ is_capturing' = t.is_capturing
    /\ latest_transcription' = t.latest_transcription
    /\ prod' = t.prod
    /\ cons' = t.cons
    /\ chan' = t.chan

NewProducer == [ pc |-> "init" ]
NewConsumer == [ pc |-> "load", audio_data |-> <<>>, sent |-> 0 ]
NewChannel == [ q |-> <<>>, rx |-> "waiting" ]

\* mpsc::unbounded(), the two thread::spawn calls and Command::perform(rx.next())
SpawnPair(s) ==
    [ s EXCEPT !.prod = Append(@, NewProducer),
               !.cons = Append(@, NewConsumer),
               !.chan = Append(@, NewChannel) ]

\* HandleStart without the `if !self.is_capturing` test
HandleStartUnguarded(s) == SpawnPair([ s EXCEPT !.is_capturing = TRUE ])

\* Message::StartCapture
HandleStart(s) ==
    IF ~s.is_capturing
    THEN SpawnPair([ s EXCEPT !.is_capturing = TRUE ])
    ELSE s

\* HandleStop written as a toggle of the flag
HandleStopToggles(s) == [ s EXCEPT !.is_capturing = ~@ ]

\* Message::StopCapture
HandleStop(s) == [ s EXCEPT !.is_capturing = FALSE ]

\* Message::TranscriptionUpdate(text)
HandleTranscriptionUpdate(s, text) == [ s EXCEPT !.latest_transcription = text ]

\* HandleRefresh without its second assignment, self.is_capturing = true
HandleRefreshLeftIdle(s) ==
    IF s.is_capturing
    THEN SpawnPair([ s EXCEPT !.is_capturing = FALSE ])
    ELSE s

\* Message::RefreshInput
HandleRefresh(s) ==
    IF s.is_capturing
    THEN SpawnPair([ [ s EXCEPT !.is_capturing = FALSE ] EXCEPT !.is_capturing = TRUE ])
    ELSE s

\* RxAfterNext with the receiver kept and its message only peeked at
RxAfterPeek(c) == c

\* the receiver after `async move { rx.next().await }` has resolved: rx is dropped
RxAfterNext(c) == [ c EXCEPT !.rx = "done", !.q = <<>> ]

\* the consumer thread has ended by a panic, which drops its tx
TxDropped(c) == c.pc \in {"failed", "panicked"}

\* tx.unbounded_send(msg): queued while the receiver lives, an ignored Err after
UnboundedSend(c, msg) ==
    IF c.rx = "waiting" THEN [ c EXCEPT !.q = Append(@, msg) ] ELSE c

Init ==
    /\ is_capturing = FALSE
    /\ latest_transcription = EmptyText
    /\ audio_buffer = <<>>
    /\ lock = Free
    /\ prod = <<>>
    /\ cons = <<>>
    /\ chan = <<>>
    /\ buffer_since = 0
    /\ appended = <<>>
    /\ drained = <<>>
    /\ delivered = <<>>
    /\ nframes = 0
    /\ silent_input = TRUE
    /\ quiet = FALSE

threadvars == <<audio_buffer, lock, buffer_since, appended, drained, nframes, silent_input>>

(* ---------------- the UI thread: update(message) ---------------- *)

StartCapture ==
    /\ is_capturing \/ Len(prod) < MaxPairs
    /\ SetCtl(HandleStart(Ctl))
    /\ UNCHANGED <<threadvars, delivered, quiet>>

StopCapture ==
    /\ SetCtl(HandleStop(Ctl))
    /\ quiet' = (prod # <<>>)
    /\ UNCHANGED <<threadvars, delivered>>

RefreshInput ==
    /\ ~is_capturing \/ Len(prod) < MaxPairs
    /\ SetCtl(HandleRefresh(Ctl))
    /\ quiet' = IF is_capturing THEN FALSE ELSE quiet
    /\ UNCHANGED <<threadvars, delivered>>

\* rx.next() of pair p resolves to Some(msg): update(msg) runs, rx is dropped
RxDeliver(p) ==
    /\ p \in DOMAIN chan
    /\ chan[p].rx = "waiting"
    /\ chan[p].q # <<>>
    /\ LET text == Head(chan[p].q)
           s == [ Ctl EXCEPT !.chan[p] = RxAfterNext(@) ]
       IN /\ SetCtl(HandleTranscriptionUpdate(s, text))
          /\ delivered' = Append(delivered, text)
    /\ UNCHANGED <<threadvars, quiet>>

\* rx.next() of pair p resolves to None (tx dropped): msg.unwrap_or(StopCapture)
RxClosed(p) ==
    /\ p \in DOMAIN chan
    /\ chan[p].rx = "waiting"
    /\ chan[p].q = <<>>
    /\ TxDropped(cons[p])
    /\ SetCtl(HandleStop([ Ctl EXCEPT !.chan[p] = RxAfterNext(@) ]))
    /\ quiet' = TRUE
    /\ UNCHANGED <<threadvars, delivered>>

(* ---------------- capture_audio ---------------- *)

uivars == <<is_capturing, latest_transcription, delivered>>

\* the device is found and the stream plays
ProdStart(p) ==
    /\ p \in DOMAIN prod
    /\ prod[p].pc = "init"
    /\ prod' = [ prod EXCEPT ![p].pc = "streaming" ]
    /\ UNCHANGED <<uivars, threadvars, cons, chan, quiet>>

\* find_best_input_device() is None, or the config or the stream fails: the thread panics
ProdFail(p) ==
    /\ p \in DOMAIN prod
    /\ prod[p].pc = "init"
    /\ prod' = [ prod EXCEPT ![p].pc = "failed" ]
    /\ UNCHANGED <<uivars, threadvars, cons, chan, quiet>>

\* the input callback on `data`: lock, buffer.extend(filtered data), drop of the guard
Callback(p, data) ==
    /\ p \in DOMAIN prod
    /\ prod[p].pc = "streaming"
    /\ nframes < MaxFrames
    /\ lock = Free
    /\ LET kept == NoiseGate(data)
       IN /\ audio_buffer' = audio_buffer \o kept
          /\ buffer_since' = IF audio_buffer = <<>> /\ kept # <<>>
                             THEN Len(prod) ELSE buffer_since
          /\ appended' = appended \o kept
          /\ quiet' = IF is_capturing THEN quiet ELSE (quiet /\ kept = <<>>)
    /\ lock' = GuardDropped(<<"prod", p>>)
    /\ nframes' = nframes + 1
    /\ silent_input' = (silent_input /\ Silent(data))
    /\ UNCHANGED <<uivars, drained, prod, cons, chan>>

(* ---------------- transcribe_audio ---------------- *)

\* WhisperContext::new_with_params succeeds
ConsLoad(p) ==
    /\ p \in DOMAIN cons
    /\ cons[p].pc = "load"
    /\ cons' = [ cons EXCEPT ![p].pc = "sleep" ]
    /\ UNCHANGED <<uivars, threadvars, prod, chan, quiet>>

\* .expect("Failed to load Whisper model") panics: the thread ends and tx is dropped
ConsLoadFail(p) ==
    /\ p \in DOMAIN cons
    /\ cons[p].pc = "load"
    /\ cons' = [ cons EXCEPT ![p].pc = "failed" ]
    /\ UNCHANGED <<uivars, threadvars, prod, chan, quiet>>

\* a cycle that finds buffer.len() < 8000: lock, continue (the guard is dropped)
ConsSkip(p) ==
    /\ p \in DOMAIN cons
    /\ cons[p].pc = "sleep"
    /\ lock = Free
    /\ TooShort(audio_buffer)
    /\ lock' = GuardDropped(<<"cons", p>>)
    /\ UNCHANGED <<uivars, audio_buffer, buffer_since, appended, drained, nframes,
                   silent_input, prod, cons, chan, quiet>>

\* a cycle that finds enough samples: lock, std::mem::take(&mut *buffer), drop of the guard
ConsTake(p) ==
    /\ p \in DOMAIN cons
    /\ cons[p].pc = "sleep"
    /\ lock = Free
    /\ ~TooShort(audio_buffer)
    /\ cons' = [ cons EXCEPT ![p].pc = "infer", ![p].audio_data = audio_buffer ]
    /\ drained' = drained \o cons'[p].audio_data
    /\ audio_buffer' = AfterTake(audio_buffer)
    /\ buffer_since' = IF AfterTake(audio_buffer) = <<>> THEN 0 ELSE buffer_since
    /\ lock' = GuardDropped(<<"cons", p>>)
    /\ UNCHANGED <<uivars, appended, nframes, silent_input, prod, chan, quiet>>

\* the end of a cycle: audio_data goes out of scope and the loop sleeps again
ConsIdle(c) == [ c EXCEPT !.pc = "sleep", !.audio_data = <<>> ]

\* whisper_ctx.create_state().expect(...) panics: the thread ends and tx is dropped
ConsStatePanic(p) ==
    /\ p \in DOMAIN cons
    /\ cons[p].pc = "infer"
    /\ cons' = [ cons EXCEPT ![p] = [ ConsIdle(@) EXCEPT !.pc = "panicked" ] ]
    /\ UNCHANGED <<uivars, threadvars, prod, chan, quiet>>

\* AfterInferErr with the Err unwrapped by .expect(..), which panics
AfterInferErrPanics(c) == [ ConsIdle(c) EXCEPT !.pc = "panicked" ]

\* if let Err(_) = whisper_state.full(..) { continue; }
AfterInferErr(c) == ConsIdle(c)

\* whisper_state.full(params.clone(), &audio_data) is Err: the cycle is skipped
ConsInferErr(p) ==
    /\ p \in DOMAIN cons
    /\ cons[p].pc = "infer"
    /\ cons' = [ cons EXCEPT ![p] = AfterInferErr(@) ]
    /\ UNCHANGED <<uivars, threadvars, prod, chan, quiet>>

\* whisper_state.full(...) is Ok and the transcription is empty: nothing is sent
ConsNoText(p) ==
    /\ p \in DOMAIN cons
    /\ cons[p].pc = "infer"
    /\ cons' = [ cons EXCEPT ![p] = ConsIdle(@) ]
    /\ UNCHANGED <<uivars, threadvars, prod, chan, quiet>>

\* AfterSendResult with the send's Result unwrapped, which panics on Err
AfterSendUnwrap(c, ok) == IF ok THEN ConsIdle(c) ELSE [ ConsIdle(c) EXCEPT !.pc = "panicked" ]

\* let _ = tx.unbounded_send(..): the Result (ok, or Err when rx is gone) is discarded
AfterSendResult(c, ok) == ConsIdle(c)

\* a non-empty transcription: tx.unbounded_send(Message::TranscriptionUpdate(..))
ConsSend(p) ==
    /\ p \in DOMAIN cons
    /\ cons[p].pc = "infer"
    /\ LET k == cons[p].sent + 1
       IN /\ chan' = [ chan EXCEPT ![p] = UnboundedSend(@, <<p, k>>) ]
          /\ cons' = [ cons EXCEPT ![p] = [ AfterSendResult(@, chan[p].rx = "waiting")
                                               EXCEPT !.sent = k ] ]
    /\ UNCHANGED <<uivars, threadvars, prod, quiet>>

Pairs == 1..MaxPairs

Next ==
    \/ StartCapture
    \/ StopCapture
    \/ RefreshInput
    \/ \E p \in Pairs : RxDeliver(p)
    \/ \E p \in Pairs : RxClosed(p)
    \/ \E p \in Pairs : ProdStart(p)
    \/ \E p \in Pairs : ProdFail(p)
    \/ \E p \in Pairs, data \in FrameSet : Callback(p, data)
    \/ \E p \in Pairs : ConsLoad(p)
    \/ \E p \in Pairs : ConsLoadFail(p)
    \/ \E p \in Pairs : ConsSkip(p)
    \/ \E p \in Pairs : ConsTake(p)
    \/ \E p \in Pairs : ConsStatePanic(p)
    \/ \E p \in Pairs : ConsInferErr(p)
    \/ \E p \in Pairs : ConsNoText(p)
    \/ \E p \in Pairs : ConsSend(p)

Spec == Init /\ [][Next]_vars

\* the steps the program takes by itself: no user input, no new frame from the driver
SystemStep ==
    \/ \E p \in Pairs : RxDeliver(p) \/ RxClosed(p)
    \/ \E p \in Pairs : ProdStart(p) \/ ProdFail(p)
    \/ \E p \in Pairs : ConsLoad(p) \/ ConsLoadFail(p) \/ ConsSkip(p) \/ ConsTake(p)
    \/ \E p \in Pairs : ConsStatePanic(p) \/ ConsInferErr(p) \/ ConsNoText(p) \/ ConsSend(p)

\* nothing but user input or a new frame can change the state any more
AtRest == ~ENABLED <<SystemStep>>_vars

RECURSIVE IsSubseq(_, _)
\* a is b with zero or more elements left out
IsSubseq(a, b) ==
    IF a = <<>> THEN TRUE
    ELSE IF b = <<>> THEN FALSE
    ELSE IF Head(a) = Head(b) THEN IsSubseq(Tail(a), Tail(b))
    ELSE IsSubseq(a, Tail(b))

\* pairs whose producer can append or whose consumer runs its drain loop
ActivePairs ==
    { p \in DOMAIN prod : prod[p].pc = "streaming" \/ cons[p].pc \in {"sleep", "infer"} }

\* the transcripts consumer p has sent, in order, and those the UI received from it
Emitted(p) == [ k \in 1..cons[p].sent |-> <<p, k>> ]
DeliveredFrom(p) == SelectSeq(delivered, LAMBDA t : t[1] = p)
Queued(p) == IF chan[p].rx = "waiting" THEN { chan[p].q[i] : i \in DOMAIN chan[p].q } ELSE {}

(* ------------------------------ claims ------------------------------ *)

\* C1: after any sequence of StartCapture, StopCapture and RefreshInput, at most
\* one producer/consumer pair is active (appending to or draining the buffer).
AtMostOneActivePair == Cardinality(ActivePairs) <= 1

\* C2: StartCapture handled while is_capturing spawns no thread, creates no
\* channel and leaves the session state, the buffer and all else unchanged.
StartWhileCapturingIsNoOp == [][(is_capturing /\ StartCapture) => UNCHANGED vars]_vars

StartWhileCapturingCase ==
    /\ is_capturing
    /\ Len(prod) = 1 /\ prod[1].pc = "streaming" /\ cons[1].pc = "infer"
    /\ audio_buffer # <<>>
    /\ HandleStart(Ctl) = Ctl

\* C3: during a session started after a stop with no audio appended in between,
\* the UI receives no transcript from the channel of an earlier session: every
\* TranscriptionUpdate delivered then comes from the session's own consumer.
NoStaleUpdateAfterRestart ==
    [][\A p \in Pairs : (is_capturing /\ quiet /\ RxDeliver(p)) => p = Len(prod)]_vars

\* C4: a session's consumer never takes samples that were appended to the
\* buffer during an earlier session (each start binds a fresh, empty buffer and
\* stop empties it).
NoCrossSessionDrain == [][\A p \in Pairs : ConsTake(p) => buffer_since >= p]_vars

\* C5 as stated: from every session state, RefreshInput yields the state that
\* StopCapture followed by StartCapture yields.
RestartIsStopThenStart == HandleRefresh(Ctl) = HandleStart(HandleStop(Ctl))

\* C5 amended: while Capturing, RefreshInput yields the state that StopCapture
\* followed by StartCapture yields; while Idle it changes nothing.
RestartIsStopThenStartWhenCapturing ==
    HandleRefresh(Ctl) = IF is_capturing THEN HandleStart(HandleStop(Ctl)) ELSE Ctl

RestartCase ==
    /\ is_capturing
    /\ Len(prod) = 1 /\ prod[1].pc = "streaming" /\ cons[1].pc = "sleep"
    /\ HandleRefresh(Ctl).is_capturing
    /\ Len(HandleRefresh(Ctl).prod) = 2

\* the latest start failed fatally: its capture thread found no usable device,
\* or its transcription thread could not load the model
StartFailed ==
    /\ prod # <<>>
    /\ prod[Len(prod)].pc = "failed" \/ cons[Len(cons)].pc = "failed"

\* C6: when a start has failed fatally, the session ends up Idle: once the
\* program has come to rest, is_capturing is false.
FailedStartEndsIdle == (StartFailed /\ AtRest) => ~is_capturing

\* C7: while its session is Capturing, every transcript the session's consumer
\* has sent is delivered to the UI or is still waiting for its receiver: none
\* is lost, so each can be delivered.
EveryUpdateDeliverable ==
    \A p \in DOMAIN cons :
        (is_capturing /\ p = Len(cons)) =>
            \A k \in 1..cons[p].sent :
                \/ \E i \in DOMAIN delivered : delivered[i] = <<p, k>>
                \/ <<p, k>> \in Queued(p)

\* C8: the transcripts the UI has received from a consumer are, in order, a
\* subsequence of the transcripts that consumer has sent.
DeliveryOrderMatchesEmission ==
    \A p \in DOMAIN cons : IsSubseq(DeliveredFrom(p), Emitted(p))

DeliveryCase ==
    \E p \in DOMAIN cons : cons[p].sent >= 2 /\ DeliveredFrom(p) # <<>>

\* C9: the samples taken so far followed by the buffer's contents are exactly the
\* gated samples appended so far, in the order of the appends.
NoSampleLostOrDuplicated == drained \o audio_buffer = appended

ConcurrentAppendCase ==
    /\ drained # <<>>
    /\ audio_buffer # <<>>
    /\ \E p \in DOMAIN cons : cons[p].pc = "infer"

Loud(sample) == sample > noise_threshold \/ -sample > noise_threshold

\* kept is data without its samples at or below the threshold
ExactlyTheLoud(kept, data) ==
    /\ IsSubseq(kept, data)
    /\ \A i \in DOMAIN kept : Loud(kept[i])
    /\ Len(kept) = Cardinality({ i \in DOMAIN data : Loud(data[i]) })

\* C10: each callback appends exactly the samples of its frame whose absolute
\* amplitude is above the threshold, in their order, and the buffer never
\* holds a sample at or below the threshold.
GateKeepsExactlyTheLoud ==
    [][ /\ \A p \in Pairs, data \in FrameSet :
             (nframes' # nframes /\ Callback(p, data)) =>
                 /\ Len(audio_buffer') >= Len(audio_buffer)
                 /\ SubSeq(audio_buffer', 1, Len(audio_buffer)) = audio_buffer
                 /\ ExactlyTheLoud(SubSeq(audio_buffer', Len(audio_buffer) + 1,
                                          Len(audio_buffer')), data)
        /\ \A i \in DOMAIN audio_buffer' : Loud(audio_buffer'[i]) ]_vars

GateCase == nframes = 1 /\ appended = <<-2, 2>> /\ audio_buffer = <<-2, 2>>

IsPrefix(a, b) == Len(a) <= Len(b) /\ SubSeq(b, 1, Len(a)) = a

\* C11: while the buffer holds fewer than 8000 samples (or none), no step takes
\* anything out of it, and the next step of a consumer that is about to begin a
\* cycle does not invoke the backend and sends no update.
ShortBufferCycleHasNoEffect ==
    [][ BufLen(audio_buffer) < MinSamples =>
            /\ IsPrefix(audio_buffer, audio_buffer')
            /\ drained' = drained
            /\ \A p \in DOMAIN cons :
                   cons[p].pc = "sleep" =>
                       /\ cons'[p] = cons[p]
                       /\ Len(chan'[p].q) <= Len(chan[p].q) ]_vars

\* a consumer polls a buffer that holds some samples, but fewer than 8000
ShortBufferCycleCase ==
    /\ audio_buffer # <<>>
    /\ BufLen(audio_buffer) < MinSamples
    /\ drained # <<>>
    /\ lock = Free
    /\ \E p \in DOMAIN cons : cons[p].pc = "sleep" /\ cons[p].sent = 1

\* C12: the step in which a consumer takes a chunk leaves the buffer empty, and
\* a consumer hands a chunk to the backend only if samples were appended since
\* the last take: the chunk is not empty, and a cycle that follows a take with
\* no append in between finds nothing to take.
DrainLeavesBufferEmpty ==
    [][ \A p \in DOMAIN cons :
            (cons[p].pc = "sleep" /\ cons'[p].pc = "infer") =>
                /\ cons'[p].audio_data = audio_buffer
                /\ audio_buffer' = <<>>
                /\ BufLen(audio_buffer') < MinSamples
                /\ cons'[p].audio_data # <<>>
                /\ appended # drained ]_vars

\* after a take and with no append since, a consumer begins another cycle
SecondCycleCase ==
    /\ drained # <<>>
    /\ appended = drained
    /\ audio_buffer = <<>>
    /\ lock = Free
    /\ \E p \in DOMAIN cons : cons[p].pc = "sleep" /\ cons[p].sent = 1

SilentInputEmitsNothing ==
    silent_input =>
        /\ appended = <<>> /\ audio_buffer = <<>> /\ drained = <<>>
        /\ \A p \in DOMAIN cons :
               /\ cons[p].pc # "infer"
               /\ cons[p].sent = 0
               /\ chan[p].q = <<>>
        /\ delivered = <<>>
        /\ latest_transcription = EmptyText

\* frames of samples at or below the threshold arrived while a consumer polls
SilentInputCase ==
    /\ silent_input
    /\ nframes = MaxFrames
    /\ \E p \in DOMAIN cons : prod[p].pc = "streaming" /\ cons[p].pc = "sleep"

\* C15: StopCapture handled while Idle leaves the session state, the threads,
\* the channels, the buffer and the displayed transcript unchanged, and handling
\* StopCapture twice yields the state that handling it once yields.
StopIsIdempotentWhileIdle ==
    [][ StopCapture =>
            /\ HandleStop(HandleStop(Ctl)) = HandleStop(Ctl)
            /\ HandleStop(CtlNext) = CtlNext
            /\ ~is_capturing =>
                   UNCHANGED <<ctlvars, audio_buffer, lock, appended, drained, delivered>> ]_vars

\* Idle after a session that left samples in the buffer and a transcript on display
StopWhileIdleCase ==
    /\ ~is_capturing
    /\ prod # <<>>
    /\ audio_buffer # <<>>
    /\ latest_transcription # EmptyText
    /\ HandleStop(Ctl) = Ctl

\* C16: once the session is stopped and the program has come to rest (whatever
\* was in flight has completed), the stopped pair has ceased: its producer
\* appends nothing more and its consumer takes nothing more.
StoppedPairCeases ==
    [][ (~is_capturing /\ prod # <<>> /\ AtRest) =>
            (appended' = appended /\ drained' = drained) ]_vars

\* C17: no consumer holds the buffer's lock while it runs the backend or at
\* any point outside the block of its size check and take, no producer holds it
\* outside its callback, and while a consumer runs the backend every streaming
\* producer can take the lock and append the next frame.
LockNotHeldAcrossInference ==
    /\ \A p \in DOMAIN cons : lock # <<"cons", p>> /\ lock # <<"prod", p>>
    /\ \A p \in DOMAIN cons :
           (cons[p].pc = "infer" /\ nframes < MaxFrames) =>
               \A q \in DOMAIN prod :
                   prod[q].pc = "streaming" => \E data \in FrameSet : ENABLED Callback(q, data)

\* a producer appended a frame while the one consumer was running the backend
AppendDuringInferenceCase ==
    /\ Len(cons) = 1 /\ cons[1].pc = "infer" /\ prod[1].pc = "streaming"
    /\ drained # <<>>
    /\ audio_buffer # <<>>
    /\ lock = Free

\* C18: a send made after the receiver of the consumer's channel is gone leaves
\* the channel and every other part of the state as it is, and the consumer goes
\* on to the next cycle of its loop.
SendAfterReceiverGoneIsDropped ==
    [][ \A p \in Pairs :
            (p \in DOMAIN chan /\ chan[p].rx = "done" /\ ConsSend(p)) =>
                /\ chan' = chan
                /\ cons'[p].pc = "sleep"
                /\ ~TxDropped(cons'[p])
                /\ UNCHANGED <<is_capturing, latest_transcription, delivered, audio_buffer,
                               lock, prod>> ]_vars

\* a consumer that sent a second transcript on a channel whose receiver is gone
SendAfterReceiverGoneCase ==
    \E p \in DOMAIN cons :
        /\ chan[p].rx = "done"
        /\ cons[p].sent = 2
        /\ cons[p].pc = "sleep"
        /\ DeliveredFrom(p) = << <<p, 1>> >>

\* C19: a Capturing session becomes Idle only by the user's StopCapture or by
\* the end of its own channel, never by the end of an earlier session's channel.
OnlyOwnChannelEndsSession ==
    [][ (is_capturing /\ ~is_capturing') =>
            (StopCapture \/ RxClosed(Len(chan))) ]_vars

====
